---- MODULE Spec2Model ----
(***************************************************************************)
(* A model of the Adwaita client-side decoration frame (src/src/lib.rs):   *)
(* the location classifier precise_location, the frame state machine of    *)
(* AdwaitaFrame (init, new_seat, remove_seat, set_states, set_hidden,      *)
(* set_resizable, resize, redraw) and its geometry queries                 *)
(* (subtract_borders, add_borders, location).                              *)
(*                                                                         *)
(* The modules theme, buttons, parts, pointer and surface are declared in  *)
(* lib.rs (lines 21-29) but their files are not part of src/: what the     *)
(* model needs of them is written from the specification and from the way  *)
(* lib.rs calls them, and is marked as such below.                         *)
(*                                                                         *)
(* Coordinates (f64 in the code) and sizes (u32) are modelled by integers  *)
(* taken from small sets in which no u32/i32 computation of the code       *)
(* overflows.                                                              *)
(***************************************************************************)
EXTENDS Integers, Sequences, FiniteSets, TLC

VARIABLES
    hidden,        \* AdwaitaFrame.hidden
    active,        \* AdwaitaFrame.active = WindowState::Active
    maximized,     \* Inner.maximized
    fullscreened,  \* Inner.fullscreened
    resizable,     \* Inner.resizable
    size,          \* Inner.size, <<width, height>>
    decoration,    \* Inner.parts holds the decoration surfaces
    shown,         \* the decoration regions that have a buffer attached
    buttons,       \* AdwaitaFrame.buttons: [w, h, scale]
    output_scale,  \* the output scale of the decoration surfaces
    pointers,      \* AdwaitaFrame.pointers, each [seat, inside, location]
    panicked,      \* an unwrap() of the code has aborted the program
    last           \* the operation executed last, its arguments and results

vars == <<hidden, active, maximized, fullscreened, resizable, size, decoration,
          shown, buttons, output_scale, pointers, panicked, last>>

(***************************************************************************)
(* Constants of theme.rs and buttons.rs (files not in src/).               *)
(***************************************************************************)
BORDER_SIZE == 10

HEADER_SIZE == 35

BUTTON_SIZE == 24

BUTTON_MARGIN == 5

BUTTON_SPACING == 13

(***************************************************************************)
(* Bounds of the model.                                                    *)
(***************************************************************************)
\* output scales are 1..MaxScale
MaxScale == 2

\* resize is called with widths 0..MaxWidth and with WideWidth
MaxWidth == 0

\* a width at which the three buttons lie inside the header
WideWidth == 100

\* resize is called with heights 0..MaxHeight
MaxHeight == 1

\* the classifier is applied to every point of 0..MaxCoord x 0..MaxCoord
\* (and to the points around the borders and the buttons)
MaxCoord == 12

\* new_seat is called while the frame has fewer than MaxPointers pointers
MaxPointers == 2

\* the seats are 1..MaxSeats
MaxSeats == 2

Scales == 1..MaxScale

Widths == (0..MaxWidth) \cup {WideWidth}

Heights == 0..MaxHeight

Seats == 1..MaxSeats

(***************************************************************************)
(* Location (lib.rs 35-48).  Button(kind) is one value per ButtonKind.     *)
(***************************************************************************)
ButtonKinds == {"Close", "Maximize", "Minimize"}

Button(kind) ==
    CASE kind = "Close" -> "ButtonClose"
      [] kind = "Maximize" -> "ButtonMaximize"
      [] kind = "Minimize" -> "ButtonMinimize"

Locations ==
    {"None", "Head", "Top", "TopRight", "Right", "BottomRight", "Bottom",
     "BottomLeft", "Left", "TopLeft"} \cup {Button(k) : k \in ButtonKinds}

HeadFamily == {"Head", "Top", "TopLeft", "TopRight"} \cup {Button(k) : k \in ButtonKinds}

BottomFamily == {"Bottom", "BottomLeft", "BottomRight"}

(***************************************************************************)
(* Buttons (buttons.rs, not in src/; after the specification, 4.1).        *)
(* The three squares are laid out right to left, Close, Maximize,          *)
(* Minimize, for the width w last arranged, in device pixels of scale.     *)
(***************************************************************************)
DefaultButtons == [w |-> 0, h |-> HEADER_SIZE, scale |-> 1]

arrange(b, w) == [b EXCEPT !.w = w]

update_scale(b, scale) == [b EXCEPT !.scale = scale]

scaled_size(b) == <<b.w * b.scale, b.h * b.scale>>

button_x(b, kind) ==
    LET right == b.w * b.scale - BUTTON_MARGIN * b.scale - BORDER_SIZE * b.scale
        step == (BUTTON_SIZE + BUTTON_SPACING) * b.scale
        close == right - BUTTON_SIZE * b.scale
    IN  CASE kind = "Close" -> close
          [] kind = "Maximize" -> close - step
          [] kind = "Minimize" -> close - 2 * step

button_y(b) == (BUTTON_MARGIN + BORDER_SIZE) * b.scale

button_contains(b, kind, x, y) ==
    /\ x >= button_x(b, kind)
    /\ x <= button_x(b, kind) + BUTTON_SIZE * b.scale
    /\ y >= button_y(b)
    /\ y <= button_y(b) + BUTTON_SIZE * b.scale

find_button(b, x, y) ==
    IF button_contains(b, "Close", x, y) THEN Button("Close")
    ELSE IF button_contains(b, "Maximize", x, y) THEN Button("Maximize")
    ELSE IF button_contains(b, "Minimize", x, y) THEN Button("Minimize")
    ELSE "Head"

InButton(b, x, y) == \E k \in ButtonKinds : button_contains(b, k, x, y)

(***************************************************************************)
(* precise_location (lib.rs 81-116).                                       *)
(***************************************************************************)
\* the top branch with the corner test on the wrong side of the border
precise_location_top_strict(b, old, width, x, y) ==
    IF old \in HeadFamily
    THEN LET found == find_button(b, x, y)
         IN  IF found = "Head"
             THEN IF y <= BORDER_SIZE
                  THEN IF x < BORDER_SIZE THEN "TopLeft"
                       ELSE IF x >= width + BORDER_SIZE THEN "TopRight"
                       ELSE "Top"
                  ELSE "Head"
             ELSE found
    ELSE IF old \in BottomFamily
    THEN IF x <= BORDER_SIZE THEN "BottomLeft"
         ELSE IF x >= width + BORDER_SIZE THEN "BottomRight"
         ELSE "Bottom"
    ELSE old

\* the bottom branch testing the right border against the width alone
precise_location_bottom_width(b, old, width, x, y) ==
    IF old \in HeadFamily
    THEN LET found == find_button(b, x, y)
         IN  IF found = "Head"
             THEN IF y <= BORDER_SIZE
                  THEN IF x <= BORDER_SIZE THEN "TopLeft"
                       ELSE IF x >= width + BORDER_SIZE THEN "TopRight"
                       ELSE "Top"
                  ELSE "Head"
             ELSE found
    ELSE IF old \in BottomFamily
    THEN IF x <= BORDER_SIZE THEN "BottomLeft"
         ELSE IF x >= width THEN "BottomRight"
         ELSE "Bottom"
    ELSE old

\* Left and Right subdivided like the bottom border
precise_location_sides_by_x(b, old, width, x, y) ==
    IF old \in HeadFamily
    THEN LET found == find_button(b, x, y)
         IN  IF found = "Head"
             THEN IF y <= BORDER_SIZE
                  THEN IF x <= BORDER_SIZE THEN "TopLeft"
                       ELSE IF x >= width + BORDER_SIZE THEN "TopRight"
                       ELSE "Top"
                  ELSE "Head"
             ELSE found
    ELSE IF old \in BottomFamily \cup {"Left", "Right"}
    THEN IF x <= BORDER_SIZE THEN "BottomLeft"
         ELSE IF x >= width + BORDER_SIZE THEN "BottomRight"
         ELSE "Bottom"
    ELSE old

\* a top edge kept when the point is on the header below the top border
precise_location_sticky_edge(b, old, width, x, y) ==
    IF old \in HeadFamily
    THEN LET found == find_button(b, x, y)
         IN  IF found = "Head"
             THEN IF y <= BORDER_SIZE
                  THEN IF x <= BORDER_SIZE THEN "TopLeft"
                       ELSE IF x >= width + BORDER_SIZE THEN "TopRight"
                       ELSE "Top"
                  ELSE IF old \in {"Top", "TopLeft", "TopRight"} THEN old
                  ELSE "Head"
             ELSE found
    ELSE IF old \in BottomFamily
    THEN IF x <= BORDER_SIZE THEN "BottomLeft"
         ELSE IF x >= width + BORDER_SIZE THEN "BottomRight"
         ELSE "Bottom"
    ELSE old

\* the bottom left corner handed over to the left border
precise_location_corner_to_side(b, old, width, x, y) ==
    IF old \in HeadFamily
    THEN LET found == find_button(b, x, y)
         IN  IF found = "Head"
             THEN IF y <= BORDER_SIZE
                  THEN IF x <= BORDER_SIZE THEN "TopLeft"
                       ELSE IF x >= width + BORDER_SIZE THEN "TopRight"
                       ELSE "Top"
                  ELSE "Head"
             ELSE found
    ELSE IF old \in BottomFamily
    THEN IF x <= BORDER_SIZE THEN "Left"
         ELSE IF x >= width + BORDER_SIZE THEN "BottomRight"
         ELSE "Bottom"
    ELSE old

precise_location(b, old, width, x, y) ==
    IF old \in HeadFamily
    THEN LET found == find_button(b, x, y)
         IN  IF found = "Head"
             THEN IF y <= BORDER_SIZE
                  THEN IF x <= BORDER_SIZE THEN "TopLeft"
                       ELSE IF x >= width + BORDER_SIZE THEN "TopRight"
                       ELSE "Top"
                  ELSE "Head"
             ELSE found
    ELSE IF old \in BottomFamily
    THEN IF x <= BORDER_SIZE THEN "BottomLeft"
         ELSE IF x >= width + BORDER_SIZE THEN "BottomRight"
         ELSE "Bottom"
    ELSE old

(***************************************************************************)
(* Decoration parts (parts.rs, not in src/; after the specification, 4.4   *)
(* and the calls of lib.rs 251-258, 278, 288, 378).  A region is shown     *)
(* while a buffer is attached to its surface.                              *)
(***************************************************************************)
Regions == {"header", "bottom", "left", "right"}

Borders == {"bottom", "left", "right"}

\* Parts::add_decorations: the surfaces are created unless they exist
add_decorations(dec) == TRUE

\* Parts::remove_decorations: the surfaces are destroyed
remove_decorations(dec) == FALSE

\* Parts::hide_decorations: a null buffer is attached to every surface
hide_decorations(sh) == {}

\* Decoration::hide_borders: a null buffer is attached to the three borders
hide_borders(sh) == sh \ Borders

\* Parts::find_surface: the location of the decoration surface entered
find_surface(dec, surface) ==
    IF ~dec THEN "None"
    ELSE CASE surface = "header" -> "Head"
           [] surface = "bottom" -> "Bottom"
           [] surface = "left" -> "Left"
           [] surface = "right" -> "Right"
           [] OTHER -> "None"

(***************************************************************************)
(* set_states (lib.rs 221-245).                                            *)
(***************************************************************************)
StateFlags == {"Activated", "Maximized", "Fullscreen"}

\* need_redraw assigned, not accumulated, by the last of the three updates
set_states_need_redraw_last_only(states, a, m, f) ==
    ("Fullscreen" \in states) # f

set_states_need_redraw(states, a, m, f) ==
    \/ ("Activated" \in states) # a
    \/ ("Maximized" \in states) # m
    \/ ("Fullscreen" \in states) # f

(***************************************************************************)
(* set_hidden (lib.rs 247-260).                                            *)
(***************************************************************************)
\* the two branches exchanged
set_hidden_parts_inverted(h, dec) ==
    IF h THEN add_decorations(dec) ELSE remove_decorations(dec)

\* the decoration regions never created
set_hidden_parts_never_added(h, dec) ==
    IF ~h THEN dec ELSE remove_decorations(dec)

set_hidden_parts(h, dec) ==
    IF ~h THEN add_decorations(dec) ELSE remove_decorations(dec)

\* the regions shown after set_hidden: new or destroyed surfaces show nothing
set_hidden_shown(h, dec, sh) == IF ~h /\ dec THEN sh ELSE {}

(***************************************************************************)
(* resize (lib.rs 266-271).                                                *)
(***************************************************************************)
resize_size(newsize) == newsize

resize_buttons(b, newsize) == arrange(b, newsize[1] + BORDER_SIZE * 2)

(***************************************************************************)
(* redraw (lib.rs 273-528).                                                *)
(***************************************************************************)
\* the early return taken for a hidden frame only
redraw_suppressed_hidden_only(h, f) == h

\* lib.rs 277: nothing is drawn for a hidden or fullscreened frame
redraw_suppressed(h, f) == h \/ f

\* lib.rs 376-380: the regions a redraw goes through, in the order of the code
redraw_order(m) ==
    IF m THEN <<"header">> ELSE <<"header", "bottom", "left", "right">>

\* the width and height of the buffer requested for a region
\* (lib.rs 305-306, 382-383, 438-439, 485-486)
buffer_size(region, sz, b, scale) ==
    CASE region = "header" ->
            <<scaled_size(b)[1], scaled_size(b)[2] + BORDER_SIZE * scale>>
      [] region = "bottom" ->
            <<(sz[1] + 2 * BORDER_SIZE) * scale, BORDER_SIZE * scale>>
      [] region = "left" -> <<BORDER_SIZE * scale, sz[2] * scale>>
      [] region = "right" -> <<BORDER_SIZE * scale, sz[2] * scale>>

\* Pixmap::new(w, h) is None for a zero width or height, and is unwrapped
\* (lib.rs 391, 450, 497, 665): drawing into an allocated buffer aborts
pixmap_unwrap_panics(dim) == dim[1] = 0 \/ dim[2] = 0

\* the position in order of the first region whose drawing aborts, 0 if none
redraw_panic_at(order, alloc, sz, b, scale) ==
    LET bad == {i \in 1..Len(order) :
                    /\ alloc[order[i]]
                    /\ pixmap_unwrap_panics(buffer_size(order[i], sz, b, scale))}
    IN  IF bad = {} THEN 0 ELSE CHOOSE i \in bad : \A j \in bad : i <= j

\* the regions whose buffer allocation is attempted
redraw_attempted(order, alloc, sz, b, scale) ==
    LET k == redraw_panic_at(order, alloc, sz, b, scale)
    IN  {order[i] : i \in {j \in 1..Len(order) : k = 0 \/ j <= k}}

\* the regions drawn, attached and committed
redraw_rendered(order, alloc, sz, b, scale) ==
    LET k == redraw_panic_at(order, alloc, sz, b, scale)
    IN  {order[i] : i \in {j \in 1..Len(order) :
                              /\ alloc[order[j]]
                              /\ (k = 0 \/ j < k)}}

(***************************************************************************)
(* draw_buttons (lib.rs 643-731): what is drawn into the header buffer.    *)
(* The background and the separator line are drawn first (lib.rs 667-706); *)
(* each button is drawn if its x lies right of margin_left, which is       *)
(* BORDER_SIZE * scale (lib.rs 654-657, 708-724); maximizable is handed to *)
(* draw_maximize (lib.rs 717).                                             *)
(***************************************************************************)
NothingDrawn ==
    [background |-> FALSE, separator |-> FALSE, buttons |-> {}, maximizable |-> {}]

\* the buttons compared with the margin of scale 1
draw_buttons_unscaled_margin(b, scale, maximizable) ==
    LET margin_left == BORDER_SIZE
        drawn == {k \in ButtonKinds : button_x(b, k) > margin_left}
    IN  [background |-> TRUE, separator |-> TRUE, buttons |-> drawn,
         maximizable |-> IF "Maximize" \in drawn THEN {maximizable} ELSE {}]

\* the maximize button always drawn as enabled
draw_buttons_always_maximizable(b, scale, maximizable) ==
    LET margin_left == BORDER_SIZE * scale
        drawn == {k \in ButtonKinds : button_x(b, k) > margin_left}
    IN  [background |-> TRUE, separator |-> TRUE, buttons |-> drawn,
         maximizable |-> IF "Maximize" \in drawn THEN {TRUE} ELSE {}]

draw_buttons(b, scale, maximizable) ==
    LET margin_left == BORDER_SIZE * scale
        drawn == {k \in ButtonKinds : button_x(b, k) > margin_left}
    IN  [background |-> TRUE, separator |-> TRUE, buttons |-> drawn,
         maximizable |-> IF "Maximize" \in drawn THEN {maximizable} ELSE {}]

(***************************************************************************)
(* The geometry queries (lib.rs 530-552).                                  *)
(***************************************************************************)
\* the header subtracted from a fullscreened frame too
subtract_borders_hidden_only(h, f, width, height) ==
    IF h THEN <<width, height>> ELSE <<width, height - HEADER_SIZE>>

subtract_borders(h, f, width, height) ==
    IF h \/ f THEN <<width, height>> ELSE <<width, height - HEADER_SIZE>>

add_borders(h, f, width, height) ==
    IF h \/ f THEN <<width, height>> ELSE <<width, height + HEADER_SIZE>>

\* the origin of a fullscreened frame left above the window
location_hidden_only(h, f) ==
    IF h THEN <<0, 0>> ELSE <<0, -HEADER_SIZE>>

location(h, f) ==
    IF h \/ f THEN <<0, 0>> ELSE <<0, -HEADER_SIZE>>

(***************************************************************************)
(* The frame.  Init is the frame returned by AdwaitaFrame::init            *)
(* (lib.rs 139-182); no seat has been added yet (pointers: Vec::new(),     *)
(* lib.rs 176).                                                            *)
(***************************************************************************)

\* a frame that starts visible
InitVisible ==
    /\ hidden = FALSE
    /\ active = FALSE
    /\ maximized = FALSE
    /\ fullscreened = FALSE
    /\ resizable = TRUE
    /\ size = <<1, 1>>
    /\ decoration = FALSE
    /\ shown = {}
    /\ buttons = DefaultButtons
    /\ output_scale = 1
    /\ pointers = <<>>
    /\ panicked = FALSE
    /\ last = [op |-> "init"]

Init ==
    /\ hidden = TRUE
    /\ active = FALSE
    /\ maximized = FALSE
    /\ fullscreened = FALSE
    /\ resizable = TRUE
    /\ size = <<1, 1>>
    /\ decoration = FALSE
    /\ shown = {}
    /\ buttons = DefaultButtons
    /\ output_scale = 1
    /\ pointers = <<>>
    /\ panicked = FALSE
    /\ last = [op |-> "init"]

\* new_seat (lib.rs 184-202): a new pointer of the seat, with
\* PointerUserData::new(seat), is pushed, whatever pointers there are
NewSeat(seat) ==
    /\ ~panicked
    /\ Len(pointers) < MaxPointers
    /\ pointers' = Append(pointers,
                          [seat |-> seat, inside |-> FALSE, location |-> "None"])
    /\ last' = [op |-> "new_seat", seat |-> seat]
    /\ UNCHANGED <<hidden, active, maximized, fullscreened, resizable, size,
                   decoration, shown, buttons, output_scale, panicked>>

\* remove_seat (lib.rs 204-219): the pointers of the seat are released and
\* dropped, the others are retained in their order
RemoveSeat(seat) ==
    /\ ~panicked
    /\ pointers' = SelectSeq(pointers, LAMBDA p : p.seat # seat)
    /\ last' = [op |-> "remove_seat", seat |-> seat]
    /\ UNCHANGED <<hidden, active, maximized, fullscreened, resizable, size,
                   decoration, shown, buttons, output_scale, panicked>>

\* set_states (lib.rs 221-245)
SetStates(states) ==
    /\ ~panicked
    /\ active' = ("Activated" \in states)
    /\ maximized' = ("Maximized" \in states)
    /\ fullscreened' = ("Fullscreen" \in states)
    /\ last' = [op |-> "set_states", states |-> states,
                ret |-> set_states_need_redraw(states, active, maximized,
                                               fullscreened)]
    /\ UNCHANGED <<hidden, resizable, size, decoration, shown, buttons,
                   output_scale, pointers, panicked>>

\* set_hidden (lib.rs 247-260)
SetHidden(h) ==
    /\ ~panicked
    /\ hidden' = h
    /\ decoration' = set_hidden_parts(h, decoration)
    /\ shown' = set_hidden_shown(h, decoration, shown)
    /\ last' = [op |-> "set_hidden", hidden |-> h, rendered |-> {}]
    /\ UNCHANGED <<active, maximized, fullscreened, resizable, size, buttons,
                   output_scale, pointers, panicked>>

\* set_resizable (lib.rs 262-264)
SetResizable(r) ==
    /\ ~panicked
    /\ resizable' = r
    /\ last' = [op |-> "set_resizable", resizable |-> r]
    /\ UNCHANGED <<hidden, active, maximized, fullscreened, size, decoration,
                   shown, buttons, output_scale, pointers, panicked>>

\* resize (lib.rs 266-271)
Resize(newsize) ==
    /\ ~panicked
    /\ size' = resize_size(newsize)
    /\ buttons' = resize_buttons(buttons, newsize)
    /\ last' = [op |-> "resize", newsize |-> newsize]
    /\ UNCHANGED <<hidden, active, maximized, fullscreened, resizable,
                   decoration, shown, output_scale, pointers, panicked>>

\* a fullscreened frame marked hidden by the redraw that hides it
Redraw_marks_hidden(alloc) ==
    /\ ~panicked
    /\ IF redraw_suppressed(hidden, fullscreened)
       THEN /\ shown' = hide_decorations(shown)
            /\ last' = [op |-> "redraw", failed |-> {}, rendered |-> {},
                        header |-> NothingDrawn]
            /\ UNCHANGED <<buttons, panicked>>
       ELSE IF ~decoration
       THEN /\ last' = [op |-> "redraw", failed |-> {}, rendered |-> {},
                        header |-> NothingDrawn]
            /\ UNCHANGED <<shown, buttons, panicked>>
       ELSE LET b == update_scale(buttons, output_scale)
                order == redraw_order(maximized)
                k == redraw_panic_at(order, alloc, size, b, output_scale)
                tried == redraw_attempted(order, alloc, size, b, output_scale)
                drawn == redraw_rendered(order, alloc, size, b, output_scale)
            IN  /\ buttons' = b
                /\ panicked' = (k # 0)
                /\ shown' = IF maximized /\ k = 0
                            THEN hide_borders(shown \cup drawn)
                            ELSE shown \cup drawn
                /\ last' = [op |-> "redraw",
                            failed |-> {r \in tried : ~alloc[r]},
                            rendered |-> drawn,
                            header |-> IF "header" \in drawn
                                       THEN draw_buttons(b, output_scale, resizable)
                                       ELSE NothingDrawn]
    /\ hidden' = (hidden \/ fullscreened)
    /\ UNCHANGED <<active, maximized, fullscreened, resizable, size,
                   decoration, output_scale, pointers>>

\* redraw (lib.rs 273-528); alloc[r] tells whether pool.buffer succeeds for r
Redraw(alloc) ==
    /\ ~panicked
    /\ IF redraw_suppressed(hidden, fullscreened)
       THEN /\ shown' = hide_decorations(shown)
            /\ last' = [op |-> "redraw", failed |-> {}, rendered |-> {},
                        header |-> NothingDrawn]
            /\ UNCHANGED <<buttons, panicked>>
       ELSE IF ~decoration
       THEN /\ last' = [op |-> "redraw", failed |-> {}, rendered |-> {},
                        header |-> NothingDrawn]
            /\ UNCHANGED <<shown, buttons, panicked>>
       ELSE LET b == update_scale(buttons, output_scale)
                order == redraw_order(maximized)
                k == redraw_panic_at(order, alloc, size, b, output_scale)
                tried == redraw_attempted(order, alloc, size, b, output_scale)
                drawn == redraw_rendered(order, alloc, size, b, output_scale)
            IN  /\ buttons' = b
                /\ panicked' = (k # 0)
                /\ shown' = IF maximized /\ k = 0
                            THEN hide_borders(shown \cup drawn)
                            ELSE shown \cup drawn
                /\ last' = [op |-> "redraw",
                            failed |-> {r \in tried : ~alloc[r]},
                            rendered |-> drawn,
                            header |-> IF "header" \in drawn
                                       THEN draw_buttons(b, output_scale, resizable)
                                       ELSE NothingDrawn]
    /\ UNCHANGED <<hidden, active, maximized, fullscreened, resizable, size,
                   decoration, output_scale, pointers>>

\* subtract_borders (lib.rs 530-536)
SubtractBorders(width, height) ==
    /\ ~panicked
    /\ last' = [op |-> "subtract_borders", width |-> width, height |-> height,
                ret |-> subtract_borders(hidden, fullscreened, width, height)]
    /\ UNCHANGED <<hidden, active, maximized, fullscreened, resizable, size,
                   decoration, shown, buttons, output_scale, pointers, panicked>>

\* add_borders (lib.rs 538-544)
AddBorders(width, height) ==
    /\ ~panicked
    /\ last' = [op |-> "add_borders", width |-> width, height |-> height,
                ret |-> add_borders(hidden, fullscreened, width, height)]
    /\ UNCHANGED <<hidden, active, maximized, fullscreened, resizable, size,
                   decoration, shown, buttons, output_scale, pointers, panicked>>

\* location (lib.rs 546-552)
QueryLocation ==
    /\ ~panicked
    /\ last' = [op |-> "location", ret |-> location(hidden, fullscreened)]
    /\ UNCHANGED <<hidden, active, maximized, fullscreened, resizable, size,
                   decoration, shown, buttons, output_scale, pointers, panicked>>

\* the decoration surfaces enter an output of another scale
ScaleChange(scale) ==
    /\ ~panicked
    /\ scale # output_scale
    /\ output_scale' = scale
    /\ last' = [op |-> "scale"]
    /\ UNCHANGED <<hidden, active, maximized, fullscreened, resizable, size,
                   decoration, shown, buttons, pointers, panicked>>

(***************************************************************************)
(* Pointer events.  The closure of new_seat (lib.rs 190-195) hands every   *)
(* event to PointerUserData::event with Inner and Buttons; pointer.rs is   *)
(* not in src/, the handler is written after the specification, section 2: *)
(* enter and motion classify the point with precise_location and store the *)
(* result, leave resets the location.  The compositor sends enter for a    *)
(* surface that is shown (or for the window's own surface, "main"), and    *)
(* motion between enter and leave.                                         *)
(***************************************************************************)
PointerEnter(i, surface, x, y) ==
    /\ ~panicked
    /\ i \in 1..Len(pointers) /\ ~pointers[i].inside
    /\ surface \in shown \cup {"main"}
    /\ pointers' = [pointers EXCEPT
                       ![i].inside = TRUE,
                       ![i].location =
                           precise_location(buttons,
                                            find_surface(decoration, surface),
                                            size[1], x, y)]
    /\ last' = [op |-> "pointer_enter", old |-> find_surface(decoration, surface)]
    /\ UNCHANGED <<hidden, active, maximized, fullscreened, resizable, size,
                   decoration, shown, buttons, output_scale, panicked>>

PointerMotion(i, x, y) ==
    /\ ~panicked
    /\ i \in 1..Len(pointers) /\ pointers[i].inside
    /\ pointers' = [pointers EXCEPT
                       ![i].location =
                           precise_location(buttons, pointers[i].location,
                                            size[1], x, y)]
    /\ last' = [op |-> "pointer_motion", old |-> pointers[i].location]
    /\ UNCHANGED <<hidden, active, maximized, fullscreened, resizable, size,
                   decoration, shown, buttons, output_scale, panicked>>

PointerLeave(i) ==
    /\ ~panicked
    /\ i \in 1..Len(pointers) /\ pointers[i].inside
    /\ pointers' = [pointers EXCEPT ![i].inside = FALSE, ![i].location = "None"]
    /\ last' = [op |-> "pointer_leave"]
    /\ UNCHANGED <<hidden, active, maximized, fullscreened, resizable, size,
                   decoration, shown, buttons, output_scale, panicked>>

(***************************************************************************)
(* The inputs of the operations.                                           *)
(***************************************************************************)
SizeInputs == Widths \X Heights

QueryInputs == {<<400, 340>>, <<0, 0>>, <<-1, HEADER_SIZE - 1>>}

\* the inputs of the frame with seats: points on and off the left corners,
\* the top edge, the header and the close button, on the header, the bottom
\* border or the window's own surface; the window activated, windowed or
\* fullscreened; one size; every allocation succeeding
PointerXs == {0, BORDER_SIZE + 1, button_x(buttons, "Close") + 1}

PointerYs == {0, button_y(buttons) + 1}

PointerSurfaces == {"header", "bottom", "main"}

PointerStates == {{"Activated"}, {"Activated", "Fullscreen"}}

PointerSizes == {<<WideWidth, 1>>}

PointerAllocs == {[r \in Regions |-> TRUE]}

\* the operations of the frame, called in any order by the window
Next ==
    \/ \E states \in SUBSET StateFlags : SetStates(states)
    \/ \E h \in BOOLEAN : SetHidden(h)
    \/ \E r \in BOOLEAN : SetResizable(r)
    \/ \E newsize \in SizeInputs : Resize(newsize)
    \/ \E alloc \in [Regions -> BOOLEAN] : Redraw(alloc)
    \/ \E q \in QueryInputs : SubtractBorders(q[1], q[2])
    \/ \E q \in QueryInputs : AddBorders(q[1], q[2])
    \/ QueryLocation
    \/ \E scale \in Scales : ScaleChange(scale)

Spec == Init /\ [][Next]_vars

\* the frame with seats: the operations that decide what a pointer can hit,
\* interleaved with the pointer events of the compositor for each pointer
NextPointer ==
    \/ \E seat \in Seats : NewSeat(seat)
    \/ \E seat \in Seats : RemoveSeat(seat)
    \/ \E states \in PointerStates : SetStates(states)
    \/ \E h \in BOOLEAN : SetHidden(h)
    \/ \E newsize \in PointerSizes : Resize(newsize)
    \/ \E alloc \in PointerAllocs : Redraw(alloc)
    \/ \E scale \in Scales : ScaleChange(scale)
    \/ \E i \in 1..MaxPointers, surface \in PointerSurfaces,
          x \in PointerXs, y \in PointerYs :
           PointerEnter(i, surface, x, y)
    \/ \E i \in 1..MaxPointers, x \in PointerXs, y \in PointerYs :
           PointerMotion(i, x, y)
    \/ \E i \in 1..MaxPointers : PointerLeave(i)

SpecPointer == Init /\ [][NextPointer]_vars

(***************************************************************************)
(* The classifier alone: a pointer inside the decorations of a visible     *)
(* frame, at any previous location, for a frame of any width of Widths     *)
(* (the layout arranged for it by resize, or still the default one of a    *)
(* frame never resized), is moved to one point.                            *)
(***************************************************************************)
ClassifyXs ==
    (0..MaxCoord)
    \cup {size[1] + BORDER_SIZE + d : d \in {-1, 0, 1}}
    \cup {button_x(buttons, k) + d :
            k \in ButtonKinds,
            d \in {-1, 0, BUTTON_SIZE * buttons.scale, BUTTON_SIZE * buttons.scale + 1}}

ClassifyYs ==
    (0..MaxCoord)
    \cup {button_y(buttons) + d :
            d \in {-1, 0, BUTTON_SIZE * buttons.scale, BUTTON_SIZE * buttons.scale + 1}}

InitClassify ==
    /\ hidden = FALSE
    /\ active = TRUE
    /\ maximized = FALSE
    /\ fullscreened = FALSE
    /\ resizable = TRUE
    /\ decoration = TRUE
    /\ shown = Regions
    /\ panicked = FALSE
    /\ output_scale \in Scales
    /\ \E width \in Widths \cup {1}, arranged \in BOOLEAN :
          /\ arranged \/ width = 1
          /\ size = <<width, 1>>
          /\ buttons = update_scale(
                 IF arranged
                 THEN resize_buttons(DefaultButtons, <<width, 1>>)
                 ELSE DefaultButtons, output_scale)
    /\ \E old \in Locations :
          pointers = <<[seat |-> 1, inside |-> TRUE, location |-> old]>>
    /\ last = [op |-> "init"]

\* a motion event (see PointerMotion), its point and its result recorded
Classify(x, y) ==
    /\ last.op = "init"
    /\ pointers' = [pointers EXCEPT
                       ![1].location =
                           precise_location(buttons, pointers[1].location,
                                            size[1], x, y)]
    /\ last' = [op |-> "classify", old |-> pointers[1].location,
                x |-> x, y |-> y,
                ret |-> precise_location(buttons, pointers[1].location,
                                         size[1], x, y)]
    /\ UNCHANGED <<hidden, active, maximized, fullscreened, resizable, size,
                   decoration, shown, buttons, output_scale, panicked>>

NextClassify == \E x \in ClassifyXs, y \in ClassifyYs : Classify(x, y)

SpecClassify == InitClassify /\ [][NextClassify]_vars

(***************************************************************************)
(* The u32 arithmetic of resize and redraw at its real width.              *)
(* A u32 is the pair <<hi, lo>> of its 16-bit halves, hi * Limb + lo. The  *)
(* sizes of Spec and SpecPointer are far below 2^31, where none of these   *)
(* computations overflows; the sizes here reach u32::MAX.  An overflowing  *)
(* + or * panics in a build with overflow checks (the debug profile) and   *)
(* wraps modulo 2^32 in a build without (the release profile); a cast      *)
(* `as i32` never panics and is negative from 2^31 on.                     *)
(***************************************************************************)
Limb == 65536

U32(n) == <<n \div Limb, n % Limb>>

\* a + b in u32: the wrapped sum, and whether it overflowed
u32_add(a, b) ==
    LET lo == a[2] + b[2]
        hi == a[1] + b[1] + (lo \div Limb)
    IN  [value |-> <<hi % Limb, lo % Limb>>, overflow |-> hi >= Limb]

\* a * k in u32, for a factor k below Limb
u32_mul(a, k) ==
    LET lo == a[2] * k
        hi == a[1] * k + (lo \div Limb)
    IN  [value |-> <<hi % Limb, lo % Limb>>, overflow |-> hi >= Limb]

\* (a as i32) < 0
as_i32_negative(a) == a[1] >= Limb \div 2

\* 4 * (a as i32) in i32 (lib.rs 322): overflows outside -2^29 .. 2^29 - 1
i32_times4_overflow(a) == a[1] >= Limb \div 8 /\ a[1] < Limb - Limb \div 8

\* resize (lib.rs 270): newsize.0 + BORDER_SIZE * 2
resize_arrange_width(newsize) == u32_add(newsize[1], U32(BORDER_SIZE * 2))

\* a u32 of 2^29 or more: Pixmap::new of such a width or height succeeds or
\* not depending on the pixmap library and on the memory at hand
u32_large(a) == a[1] >= Limb \div 8

u32_zero(a) == a = U32(0)

\* Buttons::scaled_size for a u32 width
scaled_size_u32(b) == [w |-> u32_mul(b.w, b.scale), h |-> b.h * b.scale]

\* the arithmetic redraw does for a region before it asks for the buffer
\* (header: lib.rs 305-306, 320-322; bottom: lib.rs 382-383, 388; left and
\* right: lib.rs 438-439, 444, 485-486, 491): the wrapped width, height and
\* stride of the buffer, whether a + or * overflowed, and whether a
\* dimension or the stride is negative as an i32
region_arithmetic(region, sz, b, scale) ==
    IF region = "header"
    THEN LET header == scaled_size_u32(b)
             stride == u32_mul(header.w.value, 4)
         IN  [w |-> header.w.value,
              h |-> U32(header.h + BORDER_SIZE * scale),
              stride |-> stride.value,
              overflow |-> \/ header.w.overflow
                           \/ i32_times4_overflow(header.w.value),
              negative |-> \/ as_i32_negative(header.w.value)
                           \/ as_i32_negative(stride.value)]
    ELSE IF region = "bottom"
    THEN LET sum == u32_add(sz[1], U32(2 * BORDER_SIZE))
             w == u32_mul(sum.value, scale)
             stride == u32_mul(sum.value, 4 * scale)
         IN  [w |-> w.value,
              h |-> U32(BORDER_SIZE * scale),
              stride |-> stride.value,
              overflow |-> sum.overflow \/ w.overflow \/ stride.overflow,
              negative |-> \/ as_i32_negative(w.value)
                           \/ as_i32_negative(stride.value)]
    ELSE LET h == u32_mul(sz[2], scale)
         IN  [w |-> U32(BORDER_SIZE * scale),
              h |-> h.value,
              stride |-> U32(4 * (BORDER_SIZE * scale)),
              overflow |-> h.overflow,
              negative |-> as_i32_negative(h.value)]

\* drawing into the buffer of a region aborts: Pixmap::new(w, h).unwrap()
\* (lib.rs 665, 391, 450, 497) of a zero or too large pixmap, or the unwrap
\* of a Rect::from_xywh (or of the header path) whose width or height is not
\* positive (lib.rs 682, 701, 402, 454, 501)
region_draw_aborts(region, d, scale, large_ok) ==
    \/ u32_zero(d.w) \/ u32_zero(d.h)
    \/ (u32_large(d.w) \/ u32_large(d.h)) /\ ~large_ok
    \/ /\ region = "header"
       /\ d.w[1] = 0
       /\ d.w[2] - 2 * (BORDER_SIZE * scale - 1) <= 0
    \/ /\ region = "bottom"
       /\ \/ as_i32_negative(d.w)
          \/ d.w[1] = 0 /\ d.w[2] - BORDER_SIZE * 2 * scale + 2 <= 0
    \/ /\ region \in {"left", "right"}
       /\ as_i32_negative(d.h)

\* the damage of the left border on a surface older than version 4
\* (lib.rs 470-480): height + HEADER_SIZE overflows.  The right border's
\* damage takes height as it is (lib.rs 514-523), and the header's and the
\* bottom border's add nothing that redraw has not added before.
region_damage_overflow(region, sz, old_surface) ==
    /\ region = "left"
    /\ old_surface
    /\ u32_add(sz[2], U32(HEADER_SIZE)).overflow

\* what becomes of one region in a redraw; inp holds the inputs of the
\* redraw: alloc, overflow_checks, large_ok, old_surface
region_outcome(region, sz, b, scale, inp) ==
    LET d == region_arithmetic(region, sz, b, scale)
    IN  IF inp.overflow_checks /\ d.overflow THEN "panic"
        ELSE IF ~inp.alloc[region] THEN "skipped"
        ELSE IF region_draw_aborts(region, d, scale, inp.large_ok) THEN "panic"
        ELSE IF /\ inp.overflow_checks
                /\ region_damage_overflow(region, sz, inp.old_surface)
        THEN "panic"
        ELSE "rendered"

\* a + or * done for the region overflowed
region_overflowed(region, sz, b, scale, inp) ==
    LET d == region_arithmetic(region, sz, b, scale)
    IN  \/ d.overflow
        \/ /\ inp.alloc[region]
           /\ ~region_draw_aborts(region, d, scale, inp.large_ok)
           /\ region_damage_overflow(region, sz, inp.old_surface)

\* a buffer dimension or stride of the region was negative as an i32
region_negative(region, sz, b, scale, inp) ==
    LET d == region_arithmetic(region, sz, b, scale)
    IN  ~(inp.overflow_checks /\ d.overflow) /\ d.negative

\* the outcome and the arithmetic of one region
region_result(region, sz, b, scale, inp) ==
    [outcome |-> region_outcome(region, sz, b, scale, inp),
     overflow |-> region_overflowed(region, sz, b, scale, inp),
     negative |-> region_negative(region, sz, b, scale, inp)]

\* the position in order of the first region at which the redraw aborts, 0 if
\* none
redraw_u32_panic_at(order, outcome) ==
    LET bad == {i \in 1..Len(order) : outcome[order[i]].outcome = "panic"}
    IN  IF bad = {} THEN 0 ELSE CHOOSE i \in bad : \A j \in bad : i <= j

\* the sizes resize is called with: the widths 0, 1, 2^29, 2^31 and
\* u32::MAX - 2 * BORDER_SIZE, its successor and u32::MAX, the heights 0, 1,
\* 2^31 and u32::MAX
U32Widths ==
    {U32(0), U32(1), <<Limb \div 8, 0>>, <<Limb \div 2, 0>>,
     <<Limb - 1, Limb - 1 - 2 * BORDER_SIZE>>,
     <<Limb - 1, Limb - 2 * BORDER_SIZE>>,
     <<Limb - 1, Limb - 1>>}

U32Heights == {U32(0), U32(1), <<Limb \div 2, 0>>, <<Limb - 1, Limb - 1>>}

\* a visible, windowed, unmaximized frame with its decoration regions
InitU32 ==
    /\ hidden = FALSE
    /\ active = FALSE
    /\ maximized = FALSE
    /\ fullscreened = FALSE
    /\ resizable = TRUE
    /\ size = <<U32(1), U32(1)>>
    /\ decoration = TRUE
    /\ shown = {}
    /\ buttons = [DefaultButtons EXCEPT !.w = U32(DefaultButtons.w)]
    /\ output_scale = 1
    /\ pointers = <<>>
    /\ panicked = FALSE
    /\ last = [op |-> "init"]

\* resize (lib.rs 266-271): size is stored first, then the sum is computed
ResizeU32(newsize, overflow_checks) ==
    LET w == resize_arrange_width(newsize)
    IN  /\ ~panicked
        /\ size' = newsize
        /\ panicked' = (overflow_checks /\ w.overflow)
        /\ buttons' = IF overflow_checks /\ w.overflow
                      THEN buttons
                      ELSE arrange(buttons, w.value)
        /\ last' = [op |-> "resize_u32", newsize |-> newsize,
                    overflow |-> w.overflow]
        /\ UNCHANGED <<hidden, active, maximized, fullscreened, resizable,
                       decoration, shown, output_scale, pointers>>

\* redraw (lib.rs 273-528) with the u32 arithmetic: alloc[r] tells whether
\* pool.buffer succeeds for r, large_ok whether Pixmap::new succeeds for a
\* pixmap of 2^29 or more pixels a side, old_surface whether the surfaces are
\* older than version 4 (lib.rs 177)
RedrawU32(alloc, overflow_checks, large_ok, old_surface) ==
    /\ ~panicked
    /\ IF redraw_suppressed(hidden, fullscreened)
       THEN /\ shown' = hide_decorations(shown)
            /\ last' = [op |-> "redraw_u32", failed |-> {}, rendered |-> {},
                        overflow |-> FALSE, negative |-> FALSE]
            /\ UNCHANGED <<buttons, panicked>>
       ELSE IF ~decoration
       THEN /\ last' = [op |-> "redraw_u32", failed |-> {}, rendered |-> {},
                        overflow |-> FALSE, negative |-> FALSE]
            /\ UNCHANGED <<shown, buttons, panicked>>
       ELSE \E b \in {update_scale(buttons, output_scale)},
               inp \in {[alloc |-> alloc, overflow_checks |-> overflow_checks,
                         large_ok |-> large_ok, old_surface |-> old_surface]} :
            \E header \in {region_result("header", size, b, output_scale, inp)},
               bottom \in {region_result("bottom", size, b, output_scale, inp)},
               left \in {region_result("left", size, b, output_scale, inp)},
               right \in {region_result("right", size, b, output_scale, inp)} :
            \E result \in {[header |-> header, bottom |-> bottom,
                            left |-> left, right |-> right]} :
            \E k \in {redraw_u32_panic_at(redraw_order(maximized), result)} :
            LET order == redraw_order(maximized)
                reached == {order[i] : i \in {j \in 1..Len(order) :
                                                 k = 0 \/ j <= k}}
                drawn == {r \in reached : result[r].outcome = "rendered"}
            IN  /\ buttons' = b
                /\ panicked' = (k # 0)
                /\ shown' = IF maximized /\ k = 0
                            THEN hide_borders(shown \cup drawn)
                            ELSE shown \cup drawn
                /\ last' = [op |-> "redraw_u32",
                            failed |-> {r \in reached :
                                           result[r].outcome = "skipped"},
                            rendered |-> drawn,
                            overflow |-> \E r \in reached : result[r].overflow,
                            negative |-> \E r \in reached : result[r].negative]
    /\ UNCHANGED <<hidden, active, maximized, fullscreened, resizable, size,
                   decoration, output_scale, pointers>>

NextU32 ==
    \/ \E w \in U32Widths, h \in U32Heights, overflow_checks \in BOOLEAN :
           ResizeU32(<<w, h>>, overflow_checks)
    \/ \E alloc \in [Regions -> BOOLEAN],
          overflow_checks, large_ok, old_surface \in BOOLEAN :
           RedrawU32(alloc, overflow_checks, large_ok, old_surface)
    \/ \E scale \in Scales : ScaleChange(scale)

SpecU32 == InitU32 /\ [][NextU32]_vars

(***************************************************************************)
(* The claims.                                                             *)
(***************************************************************************)

\* C1: a redraw of a hidden or fullscreened frame renders no region and
\* leaves no region shown, whatever maximized, active, resizable and size
\* are; and a hidden frame stays hidden (so no redraw renders anything)
\* until set_hidden(false) is called.
C1_SuppressedRedrawRendersNothing ==
    /\ [](last.op = "redraw" /\ (hidden \/ fullscreened)
            => last.rendered = {} /\ shown = {})
    /\ [][hidden /\ ~hidden' => last'.op = "set_hidden" /\ ~last'.hidden]_vars

\* C1 witness: a redraw of a visible frame that is fullscreened and maximized
C1_Witness ==
    /\ last.op = "redraw"
    /\ ~hidden /\ decoration /\ fullscreened /\ maximized
    /\ size = <<WideWidth, 1>>
    /\ last.rendered = {}

\* C2 (as claimed): a redraw of a frame neither hidden nor fullscreened, all
\* of whose buffer allocations succeed, renders the header, and renders the
\* three borders if and only if the frame is not maximized.  It is stated
\* for the frames the window produces, which it resizes before it shows
\* them: the button layout is the one resize arranged for the size.
C2_VisibleRedrawRendersHeaderAndBorders ==
    /\ last.op = "redraw" /\ ~hidden /\ ~fullscreened /\ last.failed = {}
    /\ buttons.w = size[1] + 2 * BORDER_SIZE
    => last.rendered = (IF maximized THEN {"header"} ELSE Regions)

\* C3: set_states stores the membership of Activated, Maximized and
\* Fullscreen in its argument, and returns whether one of the three stored
\* flags changed.
C3_SetStatesStoresFlagsAndReportsChange ==
    [][last'.op = "set_states" =>
          /\ active' = ("Activated" \in last'.states)
          /\ maximized' = ("Maximized" \in last'.states)
          /\ fullscreened' = ("Fullscreen" \in last'.states)
          /\ last'.ret = (\/ active' # active
                          \/ maximized' # maximized
                          \/ fullscreened' # fullscreened)]_vars

\* C3 witness: set_states on a hidden frame that changes fullscreened only
C3_Witness ==
    /\ last.op = "set_states"
    /\ hidden
    /\ last.states = {"Fullscreen", "Maximized"}
    /\ last.ret
    /\ fullscreened /\ maximized /\ ~active

\* C4: subtract_borders and add_borders return their arguments for a hidden
\* or fullscreened frame, and otherwise take HEADER_SIZE from, or add it to,
\* the height; the width is returned as given.
C4_BordersAddOrSubtractHeaderOnly ==
    /\ last.op = "subtract_borders" =>
          last.ret = (IF hidden \/ fullscreened
                      THEN <<last.width, last.height>>
                      ELSE <<last.width, last.height - HEADER_SIZE>>)
    /\ last.op = "add_borders" =>
          last.ret = (IF hidden \/ fullscreened
                      THEN <<last.width, last.height>>
                      ELSE <<last.width, last.height + HEADER_SIZE>>)

\* C4 witness: subtract_borders(400, 340) on a visible, fullscreened frame
C4_Witness ==
    /\ last.op = "subtract_borders"
    /\ ~hidden /\ fullscreened /\ maximized /\ ~resizable
    /\ last.width = 400 /\ last.height = 340
    /\ last.ret = <<400, 340>>

\* C5: location returns (0, 0) for a hidden or fullscreened frame and
\* (0, -HEADER_SIZE) otherwise, and the three geometry queries agree on
\* whether the header is present.
C5_LocationFollowsHiddenOrFullscreened ==
    /\ last.op = "location" =>
          last.ret = (IF hidden \/ fullscreened
                      THEN <<0, 0>> ELSE <<0, -HEADER_SIZE>>)
    /\ \A q \in QueryInputs :
          /\ (location(hidden, fullscreened) = <<0, 0>>)
                <=> (subtract_borders(hidden, fullscreened, q[1], q[2]) = q)
          /\ (location(hidden, fullscreened) = <<0, 0>>)
                <=> (add_borders(hidden, fullscreened, q[1], q[2]) = q)

\* C5 witness: location of a visible frame become fullscreened
C5_Witness ==
    /\ last.op = "location"
    /\ ~hidden /\ fullscreened /\ ~maximized
    /\ last.ret = <<0, 0>>

\* C6 (as claimed): no pointer event is hit-tested (classified by
\* precise_location from a header or bottom location) while the frame is
\* hidden or fullscreened.
C6_NoHitTestWhileHiddenOrFullscreened ==
    ~(/\ last.op \in {"pointer_enter", "pointer_motion"}
      /\ last.old \in HeadFamily \cup BottomFamily
      /\ (hidden \/ fullscreened))

\* C7 (as claimed): set_hidden(false) on a frame that is not fullscreened
\* renders the header and, unless maximized, the three borders.
C7_SetHiddenFalseRenders ==
    last.op = "set_hidden" /\ ~last.hidden /\ ~fullscreened
        => /\ "header" \in last.rendered
           /\ ~maximized => Borders \subseteq last.rendered

\* C7 (amended): set_hidden(false) creates the decoration regions and
\* renders nothing: a region gets a buffer only in a redraw.
C7_SetHiddenFalseCreatesRegionsOnly ==
    /\ [](last.op = "set_hidden" /\ ~last.hidden
            => decoration /\ ~hidden /\ last.rendered = {})
    /\ [][shown' \ shown # {} => last'.op = "redraw"]_vars

\* C7 witness: set_hidden(false) on a windowed frame, nothing shown after it
C7_Witness ==
    /\ last.op = "set_hidden" /\ ~last.hidden
    /\ ~fullscreened /\ ~maximized
    /\ size = <<WideWidth, 1>>
    /\ decoration
    /\ shown = {}

\* C8 (as claimed): both components of size are at least 1.
C8_SizeAtLeastOne == size[1] >= 1 /\ size[2] >= 1

\* C9: from Head, a button, Top, TopLeft or TopRight, a point inside a
\* button rectangle is classified as that button; any other point with
\* y <= BORDER_SIZE as TopLeft if x is within the left border, else as
\* TopRight if x is within the right border of the decorated width, else as
\* Top; and any other point as Head.
C9_HeadFamilyClassification ==
    last.op = "classify" /\ last.old \in HeadFamily =>
        IF InButton(buttons, last.x, last.y)
        THEN \E k \in ButtonKinds :
                /\ button_contains(buttons, k, last.x, last.y)
                /\ last.ret = Button(k)
        ELSE IF last.y <= BORDER_SIZE
        THEN last.ret =
                (IF last.x <= BORDER_SIZE THEN "TopLeft"
                 ELSE IF last.x >= (size[1] + 2 * BORDER_SIZE) - BORDER_SIZE
                 THEN "TopRight"
                 ELSE "Top")
        ELSE last.ret = "Head"

\* C9 witness: from a button, a point in the top right corner of a wide frame
C9_Witness ==
    /\ last.op = "classify"
    /\ last.old = Button("Maximize")
    /\ size[1] = WideWidth
    /\ last.y = BORDER_SIZE /\ last.x = WideWidth + BORDER_SIZE
    /\ last.ret = "TopRight"

\* C10: from Bottom, BottomLeft or BottomRight, a point is classified by x
\* alone: BottomLeft within the left border, else BottomRight within the
\* right border of the decorated width, else Bottom.
C10_BottomFamilyClassification ==
    last.op = "classify" /\ last.old \in BottomFamily =>
        last.ret =
            (IF last.x <= BORDER_SIZE THEN "BottomLeft"
             ELSE IF last.x >= (size[1] + 2 * BORDER_SIZE) - BORDER_SIZE
             THEN "BottomRight"
             ELSE "Bottom")

\* C10 witness: from BottomLeft, a point that lies in a button rectangle
C10_Witness ==
    /\ last.op = "classify"
    /\ last.old = "BottomLeft"
    /\ size[1] = WideWidth
    /\ InButton(buttons, last.x, last.y)
    /\ last.ret = "Bottom"

\* C11: from Left, Right or None the previous location is returned
\* unchanged, whatever the width, the point and the button layout.
C11_SidesAndNoneUnchanged ==
    last.op = "classify" /\ last.old \in {"Left", "Right", "None"}
        => last.ret = last.old

\* C11 witness: from Left, a point of the left border that lies in a button
C11_Witness ==
    /\ last.op = "classify"
    /\ last.old = "Left"
    /\ last.x <= BORDER_SIZE
    /\ InButton(buttons, last.x, last.y)
    /\ last.ret = "Left"

TopEdges == {"Top", "TopLeft", "TopRight"}

\* C12 (as claimed): from a top resize edge, a point below the top border
\* thickness and outside every button is still classified as a top edge.
C12_TopEdgeKeptBelowBorder ==
    /\ last.op = "classify" /\ last.old \in TopEdges
    /\ last.y > BORDER_SIZE /\ ~InButton(buttons, last.x, last.y)
    => last.ret \in TopEdges

\* C12 (amended): from a top resize edge the point alone decides, as it
\* does from Head: outside the buttons the pointer stays on a top edge
\* exactly while y <= BORDER_SIZE and is on Head below; inside a button it
\* is on that button.  The result stays in the header family.
C12_TopEdgeFollowsPoint ==
    last.op = "classify" /\ last.old \in TopEdges =>
        /\ last.ret \in HeadFamily
        /\ last.ret = precise_location(buttons, "Head", size[1], last.x, last.y)
        /\ ~InButton(buttons, last.x, last.y) =>
              /\ last.ret \in TopEdges <=> last.y <= BORDER_SIZE
              /\ last.y > BORDER_SIZE => last.ret = "Head"
        /\ InButton(buttons, last.x, last.y) => last.ret \notin TopEdges

\* C12 witness: from TopLeft, a point just below the top border, on no button
C12_Witness ==
    /\ last.op = "classify"
    /\ last.old = "TopLeft"
    /\ last.x = 0 /\ last.y = BORDER_SIZE + 1
    /\ ~InButton(buttons, last.x, last.y)
    /\ last.ret = "Head"

\* C13 (as claimed): in a redraw of a visible, windowed frame (its layout
\* arranged by resize) in which an allocation fails, only the regions whose
\* allocation failed are left out, and the redraw does not abort.
C13_FailedAllocationSkipsOnlyItsRegion ==
    /\ last.op = "redraw" /\ ~hidden /\ ~fullscreened
    /\ buttons.w = size[1] + 2 * BORDER_SIZE
    /\ last.failed # {}
    => /\ ~panicked
       /\ last.rendered =
             (IF maximized THEN {"header"} ELSE Regions) \ last.failed

\* C14 (as claimed): a redraw of a visible, windowed frame of height 0 (its
\* layout arranged by resize) does not abort: the left and right borders,
\* whose buffers have height 0, are skipped and the others are rendered.
C14_ZeroSizedRegionSkipped ==
    /\ last.op = "redraw" /\ ~hidden /\ ~fullscreened /\ ~maximized
    /\ buttons.w = size[1] + 2 * BORDER_SIZE
    /\ size[2] = 0
    => /\ ~panicked
       /\ last.rendered = {"header", "bottom"} \ last.failed

\* C15: when the header is rendered, its background and separator line are
\* drawn, and each button is drawn if and only if its own x is greater than
\* BORDER_SIZE * scale.
C15_ButtonsDrawnRightOfMargin ==
    last.op = "redraw" /\ "header" \in last.rendered =>
        /\ last.header.background /\ last.header.separator
        /\ \A k \in ButtonKinds :
              k \in last.header.buttons
                  <=> button_x(buttons, k) > BORDER_SIZE * output_scale

\* C15 witness: at scale 2 the header of a wide frame is drawn with the
\* close and maximize buttons and without the minimize button
C15_Witness ==
    /\ last.op = "redraw" /\ "header" \in last.rendered
    /\ output_scale = 2
    /\ size[1] = WideWidth
    /\ last.header.background /\ last.header.separator
    /\ "Close" \in last.header.buttons
    /\ "Minimize" \notin last.header.buttons

\* C16 (as claimed): whenever a pointer event on the header is classified, the
\* scale stored in the button layout equals the current output scale of the
\* header surface.
C16_HitTestAtCurrentScale ==
    /\ last.op \in {"pointer_enter", "pointer_motion"}
    /\ last.old \in HeadFamily
    => buttons.scale = output_scale

\* C17 (as claimed): in every reachable state, from init onward, the width the
\* button layout was arranged for is size.width + 2 * BORDER_SIZE.
C17_LayoutMatchesSize == buttons.w = size[1] + 2 * BORDER_SIZE

\* C18: set_resizable(b) stores b as resizable and changes nothing else, and
\* nothing is shown by it; resizable changes in no other step and is true
\* after init; the maximizable value a redraw hands to the maximize-button
\* renderer is the current resizable flag, the argument of the latest
\* set_resizable call.
C18_SetResizableOnlySetsTheFlag ==
    /\ [](/\ last.op = "init" => resizable
          /\ last.op = "set_resizable" => resizable = last.resizable
          /\ last.op = "redraw" =>
                 \A v \in last.header.maximizable : v = resizable)
    /\ [][/\ last'.op = "set_resizable" =>
                UNCHANGED <<hidden, active, maximized, fullscreened, size,
                            decoration, shown, buttons, output_scale,
                            pointers, panicked>>
          /\ resizable' # resizable => last'.op = "set_resizable"]_vars

\* C18 witness: after set_resizable(false) a redraw draws the maximize button
\* with maximizable = false
C18_Witness ==
    /\ last.op = "redraw"
    /\ ~resizable
    /\ "Maximize" \in last.header.buttons
    /\ last.header.maximizable = {FALSE}

\* C19: a fresh frame has size (1, 1), is hidden, not active, not maximized,
\* not fullscreened and resizable; the frame stays hidden until
\* set_hidden(false), and while it is hidden a redraw renders nothing and
\* add_borders and subtract_borders return their arguments.
C19_FreshFrameIsHidden ==
    /\ [](/\ last.op = "init" =>
                 /\ size = <<1, 1>> /\ hidden /\ ~active /\ ~maximized
                 /\ ~fullscreened /\ resizable
          /\ hidden /\ last.op = "redraw" => last.rendered = {} /\ shown = {}
          /\ hidden /\ last.op \in {"add_borders", "subtract_borders"} =>
                 last.ret = <<last.width, last.height>>)
    /\ [][hidden /\ ~hidden' =>
              last'.op = "set_hidden" /\ last'.hidden = FALSE]_vars

\* C19 witness: a redraw of a frame that is still as init left it
C19_Witness ==
    /\ last.op = "redraw"
    /\ hidden /\ ~decoration /\ size = <<1, 1>>
    /\ ~active /\ ~maximized /\ ~fullscreened /\ resizable
    /\ last.rendered = {}

\* C20: in every reachable state a frame that is not hidden has its
\* decoration regions, so a redraw that gets past the hidden-or-fullscreened
\* check finds them.
C20_VisibleFrameHasDecoration == ~hidden => decoration

\* C20 witness: a redraw of a visible, windowed frame renders a region
C20_Witness ==
    /\ last.op = "redraw"
    /\ ~hidden /\ ~fullscreened /\ decoration
    /\ last.rendered # {}

\* C21 (as claimed): for every u32 size passed to resize and every output
\* scale, no + or * of resize or redraw overflows 2^32, no buffer dimension
\* or stride is negative as an i32, and no call aborts.
C21_ArithmeticNeverOverflows ==
    /\ ~panicked
    /\ last.op = "resize_u32" => ~last.overflow
    /\ last.op = "redraw_u32" => ~last.overflow /\ ~last.negative

\* C22: classifying the result again at the same point gives the same
\* result; a location of the header family stays in the header family, one of
\* the bottom family stays in the bottom family, and Left, Right and None stay
\* what they are.
C22_ClassifyIdempotentAndClosed ==
    last.op = "classify" =>
        /\ precise_location(buttons, last.ret, size[1], last.x, last.y) = last.ret
        /\ last.old \in HeadFamily => last.ret \in HeadFamily
        /\ last.old \in BottomFamily => last.ret \in BottomFamily
        /\ last.old \notin HeadFamily \cup BottomFamily => last.ret = last.old

\* C22 witness: a pointer on the top edge moved into the close button, where a
\* second classification of the same point keeps the button
C22_Witness ==
    /\ last.op = "classify"
    /\ size[1] = WideWidth
    /\ buttons.w = size[1] + 2 * BORDER_SIZE
    /\ last.old = "Top"
    /\ last.ret = Button("Close")
    /\ precise_location(buttons, last.ret, size[1], last.x, last.y) = last.ret

\* C23: a redraw leaves size, resizable, hidden, active, maximized and
\* fullscreened (and the decoration regions' existence) as they were, in every
\* branch; of the button layout it changes the scale only, to the header
\* surface's scale, and only when it gets past the hidden-or-fullscreened
\* check with the decoration regions present.
C23_RedrawKeepsWindowState ==
    [][last'.op = "redraw" =>
          /\ UNCHANGED <<size, resizable, hidden, active, maximized,
                         fullscreened, decoration, output_scale>>
          /\ buttons' = IF ~hidden /\ ~fullscreened /\ decoration
                        THEN [buttons EXCEPT !.scale = output_scale]
                        ELSE buttons]_vars

\* C23 witness: a redraw of a maximized, active frame resized to the wide
\* width has brought the layout to scale 2
C23_Witness ==
    /\ last.op = "redraw"
    /\ ~hidden /\ ~fullscreened /\ maximized /\ active
    /\ size = <<WideWidth, 1>>
    /\ last.rendered = {"header"}
    /\ output_scale = 2
    /\ buttons.scale = 2

====
